---- MODULE Spec2Model ----
(***************************************************************************)
(* A model of py_liant/pyramid.py: the CRUDView base class.                *)
(*                                                                         *)
(* Strings that the code parses (the "order", "pageSize" and "page" query  *)
(* parameters, filter values) are sequences of one-character strings, so   *)
(* that split(","), endswith(" desc"), slicing and int() are computed the  *)
(* way the code computes them.                                             *)
(***************************************************************************)
EXTENDS Integers, Sequences, FiniteSets, TLC

VARIABLES
    GET,            \* request.GET: query parameter name -> raw value
    use_subquery_after_filter,  \* CRUDView.use_subquery_after_filter
    baseQuery,      \* the query argument of get_search_results (NoQuery: None)
    called,         \* which read-side property/method has been evaluated
    result,         \* what it returned or raised
    contextScope,   \* the view's context_filter: "all" (base class) or an owner
    runtimeFilters, \* what the view's runtime_filters() returns
    update_lock,    \* CRUDView.update_lock of the view class
    store,          \* the committed table: identity -> row or NoRow
    lock,           \* row locks taken by SELECT ... FOR UPDATE: identity -> request
    op,             \* per request: the view method it runs
    pc,             \* per request: its position in that method
    target,         \* per request: the identity its identity_filter selects
    input,          \* per request: request.json[target_name]
    sess,           \* per request: the session's copy of the entity (obj / old)
    loaded,         \* per request: the row as the session loaded it
    tx,             \* per request: state of its transaction.manager scope
    outcome,        \* per request: the response or the error raised
    started,        \* number of view calls started so far
    nextId,         \* the identity the store assigns to the next inserted row
    gone            \* history: identities whose delete has been acknowledged

vars == <<GET, use_subquery_after_filter, baseQuery, called, result, contextScope, runtimeFilters,
          update_lock, store, lock, op, pc, target, input, sess, loaded, tx,
          outcome, started, nextId, gone>>

crudVars == <<update_lock, lock, op, pc, target, input, sess, loaded, tx,
              outcome, started, nextId, gone>>

(***************************************************************************)
(* Bounds of the model.                                                    *)
(***************************************************************************)
MaxTokens == 3
MaxNotLen == 2
MaxRows == 3
MaxId == 2
MaxCalls == 3

(***************************************************************************)
(* Python string and list primitives.                                      *)
(***************************************************************************)
Comma == ","
DescSuffix == <<" ", "d", "e", "s", "c">>

\* s.endswith(suffix)
EndsWith(s, suffix) ==
    /\ Len(s) >= Len(suffix)
    /\ SubSeq(s, Len(s) - Len(suffix) + 1, Len(s)) = suffix

\* s[:-n] for n > 0
DropLast(s, n) == IF Len(s) <= n THEN <<>> ELSE SubSeq(s, 1, Len(s) - n)

\* index of the first sep in s, 0 when there is none
FirstIndex(s, sep) ==
    IF \E i \in 1..Len(s) : s[i] = sep
    THEN CHOOSE i \in 1..Len(s) : s[i] = sep /\ \A j \in 1..(i - 1) : s[j] # sep
    ELSE 0

\* s.split(sep): always at least one item, empty items kept
RECURSIVE Split(_, _)
Split(s, sep) ==
    LET i == FirstIndex(s, sep)
    IN  IF i = 0 THEN <<s>>
        ELSE <<SubSeq(s, 1, i - 1)>> \o Split(SubSeq(s, i + 1, Len(s)), sep)

\* sep.join(items)
RECURSIVE Join(_, _)
Join(items, sep) ==
    IF Len(items) = 0 THEN <<>>
    ELSE IF Len(items) = 1 THEN items[1]
    ELSE items[1] \o sep \o Join(Tail(items), sep)

\* [f(x) for x in items for y in f(x)]: concatenation of a sequence of sequences
RECURSIVE Flatten(_)
Flatten(seqs) ==
    IF Len(seqs) = 0 THEN <<>> ELSE seqs[1] \o Flatten(Tail(seqs))

\* items[start:stop] of a Python list (Query.__getitem__ turns a slice with
\* non-negative ends into OFFSET/LIMIT, which selects the same rows)
PySlice(items, start, stop) ==
    LET n == Len(items)
        norm(i) == IF i < 0 THEN (IF i + n < 0 THEN 0 ELSE i + n)
                   ELSE (IF i > n THEN n ELSE i)
    IN  IF norm(start) >= norm(stop) THEN <<>>
        ELSE SubSeq(items, norm(start) + 1, norm(stop))

(***************************************************************************)
(* The view class under study.  CRUDView is a base class meant to be       *)
(* extended (pyramid.py:68-69): its registries are empty and its           *)
(* identity_filter is False.  The model is of a view that fills them in    *)
(* for an entity with the columns name, age, owner and version.            *)
(***************************************************************************)
K_name == <<"n", "a", "m", "e">>
K_age == <<"a", "g", "e">>
K_both == <<"b", "o", "t", "h">>

\* accept_order: sort key -> one orderable expression, or a list of them
accept_order ==
    (K_name :> [isList |-> FALSE, expr |-> "name"]) @@
    (K_age  :> [isList |-> FALSE, expr |-> "age"]) @@
    (K_both :> [isList |-> TRUE,  exprs |-> <<"age", "name">>])

\* dict(query.c): the registry that use_subquery_after_filter installs
SubqueryColumns ==
    (K_name :> [isList |-> FALSE, expr |-> "name"]) @@
    (K_age  :> [isList |-> FALSE, expr |-> "age"]) @@
    (<<"i", "d">> :> [isList |-> FALSE, expr |-> "id"])

(***************************************************************************)
(* order_clauses (pyramid.py:130-146).  The property is a generator: its   *)
(* body runs when order_by iterates it, "return [False]" ends the          *)
(* iteration with nothing yielded, and the raise happens before any yield. *)
(***************************************************************************)
NotImplementedPrefix ==
    <<"n", "o", "t", " ", "i", "m", "p", "l", "e", "m", "e", "n", "t", "e", "d",
      ",", " ", "o", "r", "d", "e", "r", " ", "b", "y", " ">>
CommaSpace == <<",", " ">>

\* line 134: (item[:-5], True) if item.endswith(' desc') else (item, False)
OrderOf(item) ==
    IF EndsWith(item, DescSuffix)
    THEN [key |-> DropLast(item, Len(DescSuffix)), desc |-> TRUE]
    ELSE [key |-> item, desc |-> FALSE]

\* lines 134-135: one (key, desc) pair per comma-separated item
Orders(raw) ==
    LET items == Split(raw, Comma)
    IN  [i \in 1..Len(items) |-> OrderOf(items[i])]

\* line 138: [order[0] for order in orders if order[0] not in self.accept_order]
UnregisteredFirstOnly(orders, registry) ==
    LET bad == SelectSeq(orders, LAMBDA o : o.key \notin DOMAIN registry)
    IN  IF Len(bad) = 0 THEN <<>> ELSE <<bad[1].key>>

Unregistered(orders, registry) ==
    LET bad == SelectSeq(orders, LAMBDA o : o.key \notin DOMAIN registry)
    IN  [i \in 1..Len(bad) |-> bad[i].key]

\* elem.desc() if item[1] else elem
Direction(elem, desc) == [col |-> elem, desc |-> desc]

\* lines 141-146: a list entry yields each of its elements, any other entry
\* itself, with .desc() applied when the item asked for it
ExpandDescFirstOnly(entry, desc) ==
    IF entry.isList
    THEN [j \in 1..Len(entry.exprs) |-> Direction(entry.exprs[j], desc /\ j = 1)]
    ELSE <<Direction(entry.expr, desc)>>

Expand(entry, desc) ==
    IF entry.isList
    THEN [j \in 1..Len(entry.exprs) |-> Direction(entry.exprs[j], desc)]
    ELSE <<Direction(entry.expr, desc)>>

order_clauses(G, registry) ==
    IF "order" \notin DOMAIN G \/ G["order"] = <<>>
    THEN [kind |-> "ok", clauses |-> <<>>]
    ELSE LET orders == Orders(G["order"])
         IN  IF \E i \in 1..Len(orders) : orders[i].key \notin DOMAIN registry
             THEN [kind |-> "HTTPServerError",
                   message |-> NotImplementedPrefix \o
                               Join(Unregistered(orders, registry), CommaSpace),
                   clauses |-> <<>>]
             ELSE [kind |-> "ok",
                   clauses |-> Flatten([i \in 1..Len(orders) |->
                       Expand(registry[orders[i].key], orders[i].desc)])]

(***************************************************************************)
(* pager_slice (pyramid.py:148-156).                                       *)
(***************************************************************************)
Digits == <<"0", "1", "2", "3", "4", "5", "6", "7", "8", "9">>
IsDigit(c) == \E d \in 1..Len(Digits) : Digits[d] = c
DigitValue(c) == (CHOOSE d \in 1..Len(Digits) : Digits[d] = c) - 1

RECURSIVE DigitsValue(_)
DigitsValue(s) ==
    IF Len(s) = 0 THEN 0
    ELSE DigitsValue(SubSeq(s, 1, Len(s) - 1)) * Len(Digits) + DigitValue(s[Len(s)])

\* int(s) for a string without blanks or underscores: an optional sign and
\* at least one decimal digit, anything else is a ValueError
int(s) ==
    LET signed == Len(s) > 0 /\ s[1] \in {"-", "+"}
        body == IF signed THEN Tail(s) ELSE s
    IN  IF Len(body) = 0 \/ \E i \in 1..Len(body) : ~IsDigit(body[i])
        THEN [ok |-> FALSE]
        ELSE [ok |-> TRUE,
              value |-> IF signed /\ s[1] = "-" THEN 0 - DigitsValue(body)
                        ELSE DigitsValue(body)]

NoSlice == [kind |-> "False"]

\* line 156, with pages counted from one
SliceOfOneBased(page, page_size) ==
    [kind |-> "slice", start |-> (page - 1) * page_size,
     stop |-> (page - 1) * page_size + page_size]

\* line 156: slice(page * page_size, page * page_size + page_size)
SliceOf(page, page_size) ==
    [kind |-> "slice", start |-> page * page_size,
     stop |-> page * page_size + page_size]

pager_slice(G) ==
    IF "pageSize" \notin DOMAIN G THEN NoSlice
    ELSE LET page_size == int(G["pageSize"])
         IN  IF ~page_size.ok THEN [kind |-> "ValueError"]
             ELSE IF page_size.value <= 0 THEN NoSlice
             ELSE LET page == IF "page" \in DOMAIN G THEN int(G["page"])
                              ELSE [ok |-> TRUE, value |-> 0]
                  IN  IF ~page.ok THEN [kind |-> "ValueError"]
                      ELSE SliceOf(page.value, page_size.value)

(***************************************************************************)
(* get_query_filters (pyramid.py:116-128).  A builder returns a predicate, *)
(* None, or a list/tuple whose elements are predicates or None.            *)
(***************************************************************************)
None == [tag |-> "None"]
Pred(col, cmp, val) == [tag |-> "pred", col |-> col, cmp |-> cmp, val |-> val]
NoExclude == [tag |-> "None"]

\* the keys of self.filters, in the dict's iteration order
FilterKeys == <<"name", "owner", "not", "pair">>

\* self.filters[key](value) of the view under study:
\*   name:  lambda v: T.name == v
\*   owner: lambda v: T.owner == v if v else None
\*   not:   lambda v: [T.name != c if c != '*' else None for c in v]
\*   pair:  lambda v: (T.name == v[:1], T.owner == v[1:])
filters(key, v) ==
    CASE key = "name"  -> Pred("name", "eq", v)
      [] key = "owner" -> IF v = <<>> THEN None ELSE Pred("owner", "eq", v)
      [] key = "not"   ->
            [tag |-> "list",
             items |-> [i \in 1..Len(v) |->
                          IF v[i] = "*" THEN None ELSE Pred("name", "ne", <<v[i]>>)]]
      [] key = "pair"  ->
            [tag |-> "tuple",
             items |-> <<Pred("name", "eq", PySlice(v, 0, 1)),
                         Pred("owner", "eq", PySlice(v, 1, Len(v)))>>]

IsListOrTuple(x) == x.tag \in {"list", "tuple"}

\* lines 117-118
BuilderResults(G, exclude) ==
    LET used == SelectSeq(FilterKeys,
                    LAMBDA key : key \in DOMAIN G
                                 /\ (exclude = NoExclude \/ key \notin exclude.keys))
    IN  [i \in 1..Len(used) |-> filters(used[i], G[used[i]])]

\* line 119
SinglePredicates(tmp) ==
    SelectSeq(tmp, LAMBDA i : ~IsListOrTuple(i) /\ i # None)

\* line 120
ListPredicatesKeepNone(tmp) ==
    LET lists == SelectSeq(tmp, LAMBDA j : IsListOrTuple(j) /\ j # None)
    IN  Flatten([k \in 1..Len(lists) |-> lists[k].items])

ListPredicates(tmp) ==
    LET lists == SelectSeq(tmp, LAMBDA j : IsListOrTuple(j) /\ j # None)
    IN  Flatten([k \in 1..Len(lists) |->
                    SelectSeq(lists[k].items, LAMBDA i : i # None)])

\* lines 123-124, as overridden by the view
runtime_filters == runtimeFilters

get_query_filters(G, exclude) ==
    LET tmp == BuilderResults(G, exclude)
    IN  SinglePredicates(tmp) \o ListPredicates(tmp) \o runtime_filters

\* lines 126-128
query_filters(G) == get_query_filters(G, NoExclude)

(***************************************************************************)
(* The table.  A row is [id, name, age, owner, version]; the store maps    *)
(* each identity to its committed row or to NoRow.                         *)
(***************************************************************************)
NoRow == [tag |-> "NoRow"]

SampleRow(i) ==
    [id |-> i,
     name |-> IF i % 2 = 1 THEN "a" ELSE "b",
     age |-> ((i \div 2) % 2) + 1,
     owner |-> IF i % 3 = 0 THEN "u" ELSE "t",
     version |-> 1]

\* the rows of the table, in storage order
RECURSIVE TableUpTo(_, _)
TableUpTo(st, n) ==
    IF n = 0 THEN <<>>
    ELSE TableUpTo(st, n - 1) \o
         (IF n \in DOMAIN st /\ st[n] # NoRow THEN <<st[n]>> ELSE <<>>)

Table(st) == TableUpTo(st, Cardinality(DOMAIN st))

\* a predicate (a filter criterion) evaluated on a row
Holds(p, row) ==
    CASE p.cmp = "eq" -> <<row[p.col]>> = p.val
      [] p.cmp = "ne" -> <<row[p.col]>> # p.val

\* query.filter(*criteria): the rows that satisfy every criterion
Filter(rows, criteria) ==
    SelectSeq(rows, LAMBDA row : \A k \in 1..Len(criteria) : Holds(criteria[k], row))

\* lines 97-99, as overridden by the view: True in the base class ("all"),
\* else a restriction to the rows the caller's context owns
context_filter(row) == contextScope = "all" \/ row.owner = contextScope

\* lines 90-92, as overridden by the view: the base class returns False,
\* a view selects the row whose primary key the request names
identity_filter(row, ident) == row.id = ident

\* the value a row is compared by under an ordering expression
SortKey(row, col) ==
    IF col = "name" THEN (IF row.name = "a" THEN 1 ELSE 2) ELSE row[col]

\* row r1 sorts strictly before r2 under ORDER BY clauses
RECURSIVE Before(_, _, _)
Before(r1, r2, clauses) ==
    IF Len(clauses) = 0 THEN FALSE
    ELSE LET a == SortKey(r1, clauses[1].col)
             b == SortKey(r2, clauses[1].col)
         IN  IF a = b THEN Before(r1, r2, Tail(clauses))
             ELSE IF clauses[1].desc THEN a > b ELSE a < b

\* query.order_by(*clauses): every sequence of the rows the store may return;
\* rows the clauses do not separate come in any order
OrderBy(rows, clauses) ==
    { [i \in 1..Len(rows) |-> rows[f[i]]] : f \in
        { g \in Permutations(1..Len(rows)) :
            \A i, j \in 1..Len(rows) :
                i < j => ~Before(rows[g[j]], rows[g[i]], clauses) } }

(***************************************************************************)
(* get_search_results (pyramid.py:167-180) and list (pyramid.py:185-187).  *)
(* A supplied query is given by the criteria its caller built it with.     *)
(***************************************************************************)
NoQuery == "None"

\* lines 168-169: only a query derived here gets the context filter
SearchBase(query, st) ==
    IF query = NoQuery
    THEN SelectSeq(Table(st), context_filter)
    ELSE Filter(Table(st), query)

\* line 180: query[pager] if pager else query.all()
PageOf(ordered, pager) ==
    IF pager.kind = "slice"
    THEN PySlice(ordered, pager.start, pager.stop)
    ELSE ordered

\* the set of results get_search_results may produce
get_search_results(G, query, st) ==
    LET filtered == Filter(SearchBase(query, st), query_filters(G))
        pager == pager_slice(G)
        count == Len(filtered)
        registry == IF use_subquery_after_filter THEN SubqueryColumns
                    ELSE accept_order
        order == order_clauses(G, registry)
    IN  IF pager.kind = "ValueError" THEN {[kind |-> "ValueError"]}
        ELSE IF order.kind # "ok" THEN {order}
        ELSE { [kind |-> "ok", items |-> PageOf(ordered, pager), total |-> count] :
                 ordered \in OrderBy(filtered, order.clauses) }

(***************************************************************************)
(* The requests the read-side specifications draw from.                    *)
(***************************************************************************)
\* the functions g with DOMAIN g within DOMAIN allowed and g[k] in allowed[k]
RECURSIVE RequestsOver(_, _)
RequestsOver(keys, allowed) ==
    IF keys = {} THEN { <<>> }
    ELSE LET k == CHOOSE x \in keys : TRUE
             rest == RequestsOver(keys \ {k}, allowed)
         IN  rest \cup { [x \in DOMAIN g \cup {k} |-> IF x = k THEN v ELSE g[x]] :
                           g \in rest, v \in allowed[k] }

Requests(allowed) == RequestsOver(DOMAIN allowed, allowed)

OrderTokens ==
    { K_name, K_age, K_both, <<"f", "o", "o">>, <<"b", "a", "r">>, <<>>,
      K_name \o DescSuffix, K_age \o DescSuffix, K_both \o DescSuffix,
      <<"f", "o", "o">> \o DescSuffix, DescSuffix, <<" ">> \o K_age,
      <<"d", "e", "s", "c">> }

OrderStrings ==
    { Join(ts, <<Comma>>) :
        ts \in UNION { [1..n -> OrderTokens] : n \in 1..MaxTokens } }

NotValues == UNION { [1..n -> {"a", "b", "*"}] : n \in 0..MaxNotLen }

ReadIdle ==
    /\ update_lock = FALSE
    /\ store = [i \in 1..MaxRows |-> SampleRow(i)]
    /\ lock = <<>>
    /\ op = <<>> /\ pc = <<>> /\ target = <<>> /\ input = <<>>
    /\ sess = <<>> /\ loaded = <<>> /\ tx = <<>> /\ outcome = <<>>
    /\ started = 0
    /\ nextId = MaxRows + 1
    /\ gone = {}

(***************************************************************************)
(* Evaluating order_clauses for a request.                                 *)
(***************************************************************************)
InitOrder ==
    /\ GET \in Requests("order" :> OrderStrings)
    /\ use_subquery_after_filter = FALSE
    /\ baseQuery = NoQuery
    /\ called = "none"
    /\ result = [kind |-> "none"]
    /\ contextScope = "all"
    /\ runtimeFilters = <<>>
    /\ ReadIdle

EvalOrderClauses ==
    /\ called = "none"
    /\ called' = "order_clauses"
    /\ result' = order_clauses(GET, accept_order)
    /\ UNCHANGED <<GET, use_subquery_after_filter, baseQuery, contextScope,
                   runtimeFilters, store>>
    /\ UNCHANGED crudVars

NextOrder == EvalOrderClauses

SpecOrder == InitOrder /\ [][NextOrder]_vars

(***************************************************************************)
(* Properties of order_clauses.                                            *)
(***************************************************************************)
T_foo == <<"f", "o", "o">>
T_bar == <<"b", "a", "r">>
OrderGiven == called = "order_clauses" /\ "order" \in DOMAIN GET /\ GET["order"] # <<>>

\* C6: when at least one item's base key is not in the order registry,
\* order_clauses raises HTTPServerError, its message is "not implemented,
\* order by " followed by every unregistered base key of the request, in
\* request order and separated by ", " (no registered key among them), and
\* no ordering expression is produced.
C6_UnregisteredKeysAllNamed ==
    OrderGiven =>
        LET items == Split(GET["order"], Comma)
            base(i) == IF EndsWith(items[i], DescSuffix)
                       THEN SubSeq(items[i], 1, Len(items[i]) - Len(DescSuffix))
                       ELSE items[i]
            bad == { i \in 1..Len(items) : base(i) \notin DOMAIN accept_order }
            nth(k) == CHOOSE i \in bad : Cardinality({ j \in bad : j < i }) = k - 1
            named == [k \in 1..Cardinality(bad) |-> base(nth(k))]
        IN  bad # {} =>
                /\ result.kind = "HTTPServerError"
                /\ result.clauses = <<>>
                /\ result.message = NotImplementedPrefix \o Join(named, CommaSpace)

\* C6, witness: order=foo desc,name,bar: two unregistered keys around a registered one
C6_Witness ==
    /\ called = "order_clauses"
    /\ "order" \in DOMAIN GET
    /\ GET["order"] = Join(<<T_foo \o DescSuffix, K_name, T_bar>>, <<Comma>>)
    /\ result.kind = "HTTPServerError"
    /\ result.message = NotImplementedPrefix \o T_foo \o CommaSpace \o T_bar

\* C7: when every item's base key is registered, the ordering sequence is
\* the items' expressions in the request's left-to-right order: item i
\* contributes one clause per expression of its registry entry (a list entry
\* in list order, any other entry its one expression), each descending
\* exactly when the item ends in " desc"; "name desc,age" gives name
\* descending then age ascending.
C7_ClausesInRequestOrder ==
    OrderGiven =>
        LET items == Split(GET["order"], Comma)
            n == Len(items)
            desc(i) == EndsWith(items[i], DescSuffix)
            base(i) == IF desc(i)
                       THEN SubSeq(items[i], 1, Len(items[i]) - Len(DescSuffix))
                       ELSE items[i]
            exprs(i) == IF accept_order[base(i)].isList
                        THEN accept_order[base(i)].exprs
                        ELSE <<accept_order[base(i)].expr>>
            off[i \in 0..n] == IF i = 0 THEN 0 ELSE off[i - 1] + Len(exprs(i))
        IN  (\A i \in 1..n : base(i) \in DOMAIN accept_order) =>
                /\ result.kind = "ok"
                /\ Len(result.clauses) = off[n]
                /\ \A i \in 1..n : \A j \in 1..Len(exprs(i)) :
                      result.clauses[off[i - 1] + j] =
                          [col |-> exprs(i)[j], desc |-> desc(i)]
                /\ GET["order"] = K_name \o DescSuffix \o <<Comma>> \o K_age =>
                      result.clauses = <<[col |-> "name", desc |-> TRUE],
                                         [col |-> "age", desc |-> FALSE]>>

\* C7, witness: order=both desc,name: a list entry descending, then a single one ascending
C7_Witness ==
    /\ called = "order_clauses"
    /\ "order" \in DOMAIN GET
    /\ GET["order"] = K_both \o DescSuffix \o <<Comma>> \o K_name
    /\ result.kind = "ok"
    /\ result.clauses = <<[col |-> "age", desc |-> TRUE],
                          [col |-> "name", desc |-> TRUE],
                          [col |-> "name", desc |-> FALSE]>>

(***************************************************************************)
(* Resolving the filters of a request.                                     *)
(***************************************************************************)
TenantOnly == <<Pred("owner", "eq", <<"t">>)>>
RuntimeSamples == { <<>>, TenantOnly }

InitFilters ==
    /\ GET \in Requests(("name" :> { <<"a">>, <<"b">> }) @@
                        ("owner" :> { <<>>, <<"t">> }) @@
                        ("not" :> NotValues) @@
                        ("pair" :> { <<"a", "t">> }) @@
                        ("foo" :> { <<"a">> }))
    /\ use_subquery_after_filter = FALSE
    /\ baseQuery = NoQuery
    /\ called = "none"
    /\ result = [kind |-> "none"]
    /\ contextScope = "all"
    /\ runtimeFilters \in RuntimeSamples
    /\ ReadIdle

\* the query_filters property
EvalQueryFilters ==
    /\ called = "none"
    /\ called' = "query_filters"
    /\ result' = [kind |-> "ok", filters |-> query_filters(GET)]
    /\ UNCHANGED <<GET, use_subquery_after_filter, baseQuery, contextScope,
                   runtimeFilters, store>>
    /\ UNCHANGED crudVars

\* get_query_filters(exclude=...)
EvalGetQueryFilters ==
    /\ called = "none"
    /\ called' = "get_query_filters"
    /\ \E exclude \in SUBSET {"name", "not"} :
          result' = [kind |-> "ok", exclude |-> exclude,
                     filters |-> get_query_filters(GET, [keys |-> exclude])]
    /\ UNCHANGED <<GET, use_subquery_after_filter, baseQuery, contextScope,
                   runtimeFilters, store>>
    /\ UNCHANGED crudVars

NextFilters == EvalQueryFilters \/ EvalGetQueryFilters

SpecFilters == InitFilters /\ [][NextFilters]_vars

\* how often x occurs in the sequence xs
Occurrences(x, xs) == Cardinality({ i \in 1..Len(xs) : xs[i] = x })

\* C9: the resolved filter list ends with the runtime filters, and before
\* them holds, for each registered key of the request, its builder's
\* predicate once (a single predicate) or each non-null element of its list
\* or tuple once, and nothing else: nothing for an unregistered key, nothing
\* for a builder that returns null, and no null.
C9_ResolvedFilters ==
    called = "query_filters" =>
        LET fl == result.filters
            user == SubSeq(fl, 1, Len(fl) - Len(runtimeFilters))
            keys == { k \in DOMAIN GET : \E i \in 1..Len(FilterKeys) : FilterKeys[i] = k }
            built(k) == filters(k, GET[k])
            share(k, p) == IF built(k).tag \in {"list", "tuple"}
                           THEN Occurrences(p, built(k).items)
                           ELSE IF built(k) = p THEN 1 ELSE 0
            RECURSIVE Total(_, _)
            Total(ks, p) == IF ks = {} THEN 0
                            ELSE LET k == CHOOSE x \in ks : TRUE
                                 IN  share(k, p) + Total(ks \ {k}, p)
            candidates == { fl[i] : i \in 1..Len(fl) }
                          \cup { built(k) : k \in keys }
                          \cup UNION { { built(k).items[i] : i \in 1..Len(built(k).items) } :
                                       k \in { x \in keys : built(x).tag \in {"list", "tuple"} } }
        IN  /\ Len(fl) >= Len(runtimeFilters)
            /\ SubSeq(fl, Len(fl) - Len(runtimeFilters) + 1, Len(fl)) = runtimeFilters
            /\ \A i \in 1..Len(fl) : fl[i] # None
            /\ \A p \in candidates \ {None} :
                  p.tag = "pred" => Occurrences(p, user) = Total(keys, p)
            /\ \A i \in 1..Len(user) : user[i].tag = "pred"

\* C9, witness: ?foo=a&owner=&not=a*&name=b&pair=at with a runtime filter: an unknown
\* key, a null, a list with a null element, a single predicate and a tuple
C9_Witness ==
    /\ called = "query_filters"
    /\ GET = ("foo" :> <<"a">>) @@ ("owner" :> <<>>) @@ ("not" :> <<"a", "*">>)
             @@ ("name" :> <<"b">>) @@ ("pair" :> <<"a", "t">>)
    /\ runtimeFilters = TenantOnly
    /\ result.filters = <<Pred("name", "eq", <<"b">>),
                          Pred("name", "ne", <<"a">>),
                          Pred("name", "eq", <<"a">>),
                          Pred("owner", "eq", <<"t">>),
                          Pred("owner", "eq", <<"t">>)>>

(***************************************************************************)
(* Listing: list() and get_search_results(query).                          *)
(***************************************************************************)
SuppliedQueries == { <<>>, <<Pred("age", "eq", <<2>>)>> }

InitList ==
    /\ GET \in Requests(
          ("order" :> { K_name, K_age \o DescSuffix, T_foo,
                        K_name \o DescSuffix \o <<Comma>> \o K_age }) @@
          ("pageSize" :> { <<"0">>, <<"-", "1">>, <<"1">>, <<"2">>, <<"x">> }) @@
          ("page" :> { <<"0">>, <<"1">>, <<"2">>, <<"-", "1">>, <<"y">> }) @@
          ("name" :> { <<"a">> }))
    /\ use_subquery_after_filter \in BOOLEAN
    /\ baseQuery = NoQuery
    /\ called = "none"
    /\ result = [kind |-> "none"]
    /\ contextScope \in {"all", "t"}
    /\ runtimeFilters \in RuntimeSamples
    /\ ReadIdle

\* list(): get_search_results() with no query, wrapped as dict(items, total)
List ==
    /\ called = "none"
    /\ called' = "list"
    /\ result' \in get_search_results(GET, NoQuery, store)
    /\ UNCHANGED <<GET, use_subquery_after_filter, baseQuery, contextScope,
                   runtimeFilters, store>>
    /\ UNCHANGED crudVars

\* get_search_results(query) called with a query of the caller's
SearchWithQuery ==
    /\ called = "none"
    /\ called' = "get_search_results"
    /\ \E query \in SuppliedQueries :
          /\ baseQuery' = query
          /\ result' \in get_search_results(GET, query, store)
    /\ UNCHANGED <<GET, use_subquery_after_filter, contextScope,
                   runtimeFilters, store>>
    /\ UNCHANGED crudVars

NextList == List \/ SearchWithQuery

SpecList == InitList /\ [][NextList]_vars

\* the rows a search is about: those of the base query (all rows, or the
\* rows a supplied query selects) that pass the request's resolved filters
Matching ==
    { row \in { store[i] : i \in DOMAIN store } \ {NoRow} :
        /\ baseQuery # NoQuery =>
              \A k \in 1..Len(baseQuery) : Holds(baseQuery[k], row)
        /\ \A k \in 1..Len(query_filters(GET)) : Holds(query_filters(GET)[k], row) }

\* C3 (as claimed): every item a search returns satisfies context_filter and
\* the total counts only rows that satisfy it, whether the base query is
\* derived from the entity type or supplied by the caller.
C3_SearchAlwaysScoped ==
    (called \in {"list", "get_search_results"} /\ result.kind = "ok") =>
        /\ \A i \in 1..Len(result.items) : context_filter(result.items[i])
        /\ result.total = Cardinality({ row \in Matching : context_filter(row) })

\* the registry get_search_results resolves the order with
RegistryInUse == IF use_subquery_after_filter THEN SubqueryColumns ELSE accept_order

\* C8: list() with pageSize > 0 and page >= 0 (0 when absent) returns the
\* elements of the filtered, ordered result at the indices
\* [page*pageSize, page*pageSize + pageSize); with pageSize absent, zero or
\* negative it returns every matching row whatever page is; in both cases
\* total is the number of rows of the filtered, unpaginated set.
C8_PaginationWindow ==
    called = "list" =>
        LET matching == { row \in Matching : context_filter(row) }
            n == Cardinality(matching)
            order == order_clauses(GET, RegistryInUse)
            size == IF "pageSize" \in DOMAIN GET THEN int(GET["pageSize"])
                    ELSE [ok |-> TRUE, value |-> 0]
            page == IF "page" \in DOMAIN GET THEN int(GET["page"])
                    ELSE [ok |-> TRUE, value |-> 0]
            Sorted(o) == /\ Len(o) = n
                         /\ { o[i] : i \in 1..n } = matching
                         /\ \A i, j \in 1..n :
                               i < j => ~Before(o[j], o[i], order.clauses)
            Min(a, b) == IF a < b THEN a ELSE b
            Window(o, lo, hi) == [k \in 1..(Min(hi, n) - Min(lo, n)) |-> o[Min(lo, n) + k]]
        IN  order.kind = "ok" =>
              /\ (size.ok /\ size.value > 0 /\ page.ok /\ page.value >= 0) =>
                    /\ result.kind = "ok"
                    /\ result.total = n
                    /\ \E o \in [1..n -> matching] :
                          /\ Sorted(o)
                          /\ result.items = Window(o, page.value * size.value,
                                                page.value * size.value + size.value)
              /\ (size.ok /\ size.value <= 0) =>
                    /\ result.kind = "ok"
                    /\ result.total = n
                    /\ \E o \in [1..n -> matching] :
                          Sorted(o) /\ result.items = o

\* C8, witness: ?page=1&pageSize=2 over three matching rows: the window [2, 4) holds one
C8_Witness ==
    /\ called = "list"
    /\ GET = ("page" :> <<"1">>) @@ ("pageSize" :> <<"2">>)
    /\ contextScope = "all"
    /\ runtimeFilters = <<>>
    /\ result.kind = "ok"
    /\ result.total = Cardinality(DOMAIN store)
    /\ Len(result.items) = Cardinality(DOMAIN store) - 2
    /\ Len(result.items) > 0

(***************************************************************************)
(* The mutating side: get, update, insert and delete run by concurrent     *)
(* requests against one store.  Each step of a request is one interaction  *)
(* with the store (a SELECT, or the flush and COMMIT that leaving          *)
(* "with transaction.manager" performs); the store is READ COMMITTED and   *)
(* the entity is versioned (the mapper's version_id_col), so an UPDATE or  *)
(* DELETE carries "AND version = <version read>" and raises StaleDataError *)
(* when it matches no row.                                                 *)
(***************************************************************************)
Reqs == {"r1", "r2"}
Ids == 1..MaxId
Names == {"a", "b"}
InputVersions == {1, 2}
NoInput == [tag |-> "NoInput"]
NoOutcome == [status |-> 0, body |-> NoRow]
HTTPOk == 200
HTTPNotFound == 404
HTTPConflict == 409
HTTPServerError == 500

\* lines 101-114: query.filter(context_filter, identity_filter).one(), NoRow
\* standing for NoResultFound (raised on as HTTPNotFound)
get_by_id(st, ident) ==
    LET matches == { i \in DOMAIN st :
                       /\ st[i] # NoRow
                       /\ context_filter(st[i])
                       /\ identity_filter(st[i], ident) }
    IN  IF matches = {} THEN NoRow ELSE st[CHOOSE i \in matches : TRUE]

\* line 95
sanitize_input(r) == input[r]

\* lines 189-190: obj.apply_changes(data).  The entity's apply_changes sets
\* the fields of data on obj and, on an update, compares data's version with
\* obj's; the check may come before or after the fields are set.
apply_changes(obj, data, for_update) ==
    IF for_update /\ data.version # obj.version
    THEN { [raised |-> "VersionCheckError", obj |-> obj],
           [raised |-> "VersionCheckError", obj |-> [obj EXCEPT !.name = data.name]] }
    ELSE { [raised |-> "none", obj |-> [obj EXCEPT !.name = data.name]] }

\* the flush of a loaded entity that may have been modified: nothing is
\* emitted for an entity without a net change
FlushUpdate(st, old, new) ==
    IF new = old THEN [ok |-> TRUE, store |-> st]
    ELSE IF st[old.id] # NoRow /\ st[old.id].version = old.version
    THEN [ok |-> TRUE,
          store |-> [st EXCEPT ![old.id] = [new EXCEPT !.version = old.version + 1]]]
    ELSE [ok |-> FALSE, store |-> st]

\* line 217 and the flush at line 215's exit
FlushDelete(st, old) ==
    IF st[old.id] # NoRow /\ st[old.id].version = old.version
    THEN [ok |-> TRUE, store |-> [st EXCEPT ![old.id] = NoRow]]
    ELSE [ok |-> FALSE, store |-> st]

\* line 209 and the flush at line 208's exit: the store assigns the identity
\* and the first version
FlushInsert(st, obj, ident) ==
    [ok |-> TRUE,
     store |-> [st EXCEPT ![ident] = [obj EXCEPT !.id = ident, !.version = 1]]]

\* leaving "with transaction.manager" whatever was raised: always a commit
ExitScopeAlwaysCommit(raised, st, flush) ==
    IF flush.ok
    THEN [state |-> "committed", store |-> flush.store, raised |-> raised]
    ELSE [state |-> "aborted", store |-> st, raised |-> "StaleDataError"]

\* leaving "with transaction.manager": abort when the block raised, else
\* flush and commit, which StaleDataError turns into an abort
ExitScope(raised, st, flush) ==
    IF raised # "none"
    THEN [state |-> "aborted", store |-> st, raised |-> raised]
    ELSE IF flush.ok
    THEN [state |-> "committed", store |-> flush.store, raised |-> "none"]
    ELSE [state |-> "aborted", store |-> st, raised |-> "StaleDataError"]

\* delete answering HTTPOk whatever its transaction did
DeleteResponseAlwaysOk(exit) == HTTPOk

\* lines 215-218: HTTPOk once the block is left; an error leaves delete
\* unhandled
DeleteResponse(exit) ==
    IF exit.raised = "none" THEN HTTPOk ELSE HTTPServerError

\* lines 193-202 without the except clause for StaleDataError
UpdateErrorStaleUncaught(raised) ==
    IF raised = "VersionCheckError" THEN HTTPConflict ELSE HTTPServerError

\* lines 193-202: VersionCheckError (raised on as HTTPConflict inside the
\* block) and StaleDataError both end as HTTPConflict
UpdateError(raised) ==
    IF raised \in {"VersionCheckError", "StaleDataError"} THEN HTTPConflict
    ELSE HTTPServerError

\* the locks of the store with those of request r released
Released(r) == [i \in DOMAIN lock |-> IF lock[i] = r THEN "free" ELSE lock[i]]

\* a new instance of target_type
NewEntity ==
    [id |-> 0, name |-> "", age |-> 1,
     owner |-> IF contextScope = "all" THEN "t" ELSE contextScope,
     version |-> 0]

Init ==
    /\ GET = <<>>
    /\ use_subquery_after_filter = FALSE
    /\ baseQuery = NoQuery
    /\ called = "none"
    /\ result = [kind |-> "none"]
    /\ contextScope \in {"all", "u"}
    /\ runtimeFilters = <<>>
    /\ update_lock \in BOOLEAN
    /\ store = [i \in Ids |-> IF i = 1 THEN SampleRow(i) ELSE NoRow]
    /\ lock = [i \in Ids |-> "free"]
    /\ op = [r \in Reqs |-> "idle"]
    /\ pc = [r \in Reqs |-> "done"]
    /\ target = [r \in Reqs |-> 0]
    /\ input = [r \in Reqs |-> NoInput]
    /\ sess = [r \in Reqs |-> NoRow]
    /\ loaded = [r \in Reqs |-> NoRow]
    /\ tx = [r \in Reqs |-> "none"]
    /\ outcome = [r \in Reqs |-> NoOutcome]
    /\ started = 0
    /\ nextId = 2
    /\ gone = {}

readSide == <<GET, use_subquery_after_filter, baseQuery, called, result,
              contextScope, runtimeFilters, update_lock>>

\* the request r ends its call with a response or an error
Finish(r, status, body) ==
    /\ pc' = [pc EXCEPT ![r] = "done"]
    /\ outcome' = [outcome EXCEPT ![r] = [status |-> status, body |-> body]]

\* a request arrives and the framework calls one view method for it
Start(r) ==
    /\ pc[r] = "done"
    /\ started < MaxCalls
    /\ started' = started + 1
    /\ \E o \in {"get", "update", "insert", "delete"} :
          /\ op' = [op EXCEPT ![r] = o]
          /\ pc' = [pc EXCEPT ![r] = o]
          /\ IF o = "insert"
             THEN /\ nextId + Cardinality({ q \in Reqs : op[q] = "insert"
                                                  /\ pc[q] \in {"insert", "ins_apply", "ins_commit"} })
                        <= MaxId
                  /\ target' = [target EXCEPT ![r] = 0]
             ELSE \E i \in Ids : target' = [target EXCEPT ![r] = i]
          /\ IF o \in {"get", "delete"}
             THEN input' = [input EXCEPT ![r] = NoInput]
             ELSE \E n \in Names, v \in InputVersions :
                     input' = [input EXCEPT ![r] = [name |-> n, version |-> v]]
    /\ sess' = [sess EXCEPT ![r] = NoRow]
    /\ loaded' = [loaded EXCEPT ![r] = NoRow]
    /\ tx' = [tx EXCEPT ![r] = "none"]
    /\ outcome' = [outcome EXCEPT ![r] = NoOutcome]
    /\ UNCHANGED <<store, lock, nextId, gone>>
    /\ UNCHANGED readSide

\* get (lines 182-183)
Get(r) ==
    /\ op[r] = "get" /\ pc[r] = "get"
    /\ LET row == get_by_id(store, target[r])
       IN  IF row = NoRow THEN Finish(r, HTTPNotFound, NoRow)
           ELSE Finish(r, HTTPOk, row)
    /\ UNCHANGED <<store, lock, op, target, input, sess, loaded, tx, started,
                   nextId, gone>>
    /\ UNCHANGED readSide

\* update, lines 194-195: enter the transaction and fetch the row, with
\* FOR UPDATE when update_lock is set (the SELECT then waits for the lock)
UpdateFetch(r) ==
    /\ op[r] = "update" /\ pc[r] = "update"
    /\ LET row == get_by_id(store, target[r])
       IN  IF row = NoRow
           THEN /\ tx' = [tx EXCEPT ![r] = "aborted"]
                /\ Finish(r, HTTPNotFound, NoRow)
                /\ UNCHANGED <<lock, sess, loaded>>
           ELSE /\ update_lock => lock[row.id] = "free"
                /\ lock' = IF update_lock THEN [lock EXCEPT ![row.id] = r] ELSE lock
                /\ tx' = [tx EXCEPT ![r] = "active"]
                /\ sess' = [sess EXCEPT ![r] = row]
                /\ loaded' = [loaded EXCEPT ![r] = row]
                /\ pc' = [pc EXCEPT ![r] = "upd_apply"]
                /\ UNCHANGED outcome
    /\ UNCHANGED <<store, op, target, input, started, nextId, gone>>
    /\ UNCHANGED readSide

\* update, lines 196-200: apply the input; VersionCheckError is raised on as
\* HTTPConflict inside the block, which the transaction scope is left with
UpdateApply(r) ==
    /\ op[r] = "update" /\ pc[r] = "upd_apply"
    /\ \E applied \in apply_changes(sess[r], sanitize_input(r), TRUE) :
          IF applied.raised = "none"
          THEN /\ sess' = [sess EXCEPT ![r] = applied.obj]
               /\ pc' = [pc EXCEPT ![r] = "upd_commit"]
               /\ UNCHANGED <<store, lock, tx, outcome>>
          ELSE LET exit == ExitScope(applied.raised, store,
                                     FlushUpdate(store, loaded[r], applied.obj))
               IN  /\ store' = exit.store
                   /\ tx' = [tx EXCEPT ![r] = exit.state]
                   /\ lock' = Released(r)
                   /\ sess' = [sess EXCEPT ![r] = NoRow]
                   /\ Finish(r, UpdateError(applied.raised), NoRow)
    /\ UNCHANGED <<op, target, input, loaded, started, nextId, gone>>
    /\ UNCHANGED readSide

\* update, line 194's exit and lines 201-202: flush and commit; the UPDATE
\* waits for a lock another request holds on the row
UpdateCommit(r) ==
    /\ op[r] = "update" /\ pc[r] = "upd_commit"
    /\ lock[target[r]] \in {"free", r}
    /\ LET exit == ExitScope("none", store, FlushUpdate(store, loaded[r], sess[r]))
       IN  /\ store' = exit.store
           /\ tx' = [tx EXCEPT ![r] = exit.state]
           /\ IF exit.raised = "none"
              THEN pc' = [pc EXCEPT ![r] = "upd_get"] /\ UNCHANGED outcome
              ELSE Finish(r, UpdateError(exit.raised), NoRow)
    /\ lock' = Released(r)
    /\ UNCHANGED <<op, target, input, sess, loaded, started, nextId, gone>>
    /\ UNCHANGED readSide

\* update, line 203: return self.get()
UpdateGet(r) ==
    /\ op[r] = "update" /\ pc[r] = "upd_get"
    /\ LET row == get_by_id(store, target[r])
       IN  IF row = NoRow THEN Finish(r, HTTPNotFound, NoRow)
           ELSE Finish(r, HTTPOk, row)
    /\ UNCHANGED <<store, lock, op, target, input, sess, loaded, tx, started,
                   nextId, gone>>
    /\ UNCHANGED readSide

\* insert, lines 206-207: the entity is instantiated and the input read
InsertNew(r) ==
    /\ op[r] = "insert" /\ pc[r] = "insert"
    /\ sess' = [sess EXCEPT ![r] = NewEntity]
    /\ pc' = [pc EXCEPT ![r] = "ins_apply"]
    /\ UNCHANGED <<store, lock, op, target, input, loaded, tx, outcome, started,
                   nextId, gone>>
    /\ UNCHANGED readSide

\* insert, lines 208-210: enter the transaction, add the entity, apply the input
InsertApply(r) ==
    /\ op[r] = "insert" /\ pc[r] = "ins_apply"
    /\ \E applied \in apply_changes(sess[r], sanitize_input(r), FALSE) :
          sess' = [sess EXCEPT ![r] = applied.obj]
    /\ tx' = [tx EXCEPT ![r] = "active"]
    /\ pc' = [pc EXCEPT ![r] = "ins_commit"]
    /\ UNCHANGED <<store, lock, op, target, input, loaded, outcome, started,
                   nextId, gone>>
    /\ UNCHANGED readSide

\* insert, line 208's exit: flush (the INSERT) and commit
InsertCommit(r) ==
    /\ op[r] = "insert" /\ pc[r] = "ins_commit"
    /\ nextId <= MaxId
    /\ LET exit == ExitScope("none", store, FlushInsert(store, sess[r], nextId))
       IN  /\ store' = exit.store
           /\ tx' = [tx EXCEPT ![r] = exit.state]
    /\ target' = [target EXCEPT ![r] = nextId]
    /\ nextId' = nextId + 1
    /\ gone' = gone \ {nextId}
    /\ pc' = [pc EXCEPT ![r] = "ins_merge"]
    /\ UNCHANGED <<lock, op, input, sess, loaded, outcome, started>>
    /\ UNCHANGED readSide

\* insert, lines 211-212: merge the entity back and return it; the merge
\* reloads the row by its identity, and keeps its own state when it is gone
InsertMerge(r) ==
    /\ op[r] = "insert" /\ pc[r] = "ins_merge"
    /\ LET row == store[target[r]]
       IN  IF row = NoRow
           THEN Finish(r, HTTPOk, [sess[r] EXCEPT !.id = target[r], !.version = 1])
           ELSE Finish(r, HTTPOk, row)
    /\ UNCHANGED <<store, lock, op, target, input, sess, loaded, tx, started,
                   nextId, gone>>
    /\ UNCHANGED readSide

\* delete, lines 215-217: enter the transaction, fetch the row, mark it deleted
DeleteFetch(r) ==
    /\ op[r] = "delete" /\ pc[r] = "delete"
    /\ LET row == get_by_id(store, target[r])
       IN  IF row = NoRow
           THEN /\ tx' = [tx EXCEPT ![r] = "aborted"]
                /\ Finish(r, HTTPNotFound, NoRow)
                /\ UNCHANGED <<sess, loaded>>
           ELSE /\ tx' = [tx EXCEPT ![r] = "active"]
                /\ sess' = [sess EXCEPT ![r] = row]
                /\ loaded' = [loaded EXCEPT ![r] = row]
                /\ pc' = [pc EXCEPT ![r] = "del_commit"]
                /\ UNCHANGED outcome
    /\ UNCHANGED <<store, lock, op, target, input, started, nextId, gone>>
    /\ UNCHANGED readSide

\* delete, line 215's exit and line 218: flush (the DELETE) and commit, then
\* HTTPOk; the DELETE waits for a lock another request holds on the row
DeleteCommit(r) ==
    /\ op[r] = "delete" /\ pc[r] = "del_commit"
    /\ lock[target[r]] \in {"free", r}
    /\ LET exit == ExitScope("none", store, FlushDelete(store, loaded[r]))
       IN  /\ store' = exit.store
           /\ tx' = [tx EXCEPT ![r] = exit.state]
           /\ Finish(r, DeleteResponse(exit), NoRow)
           /\ gone' = IF DeleteResponse(exit) = HTTPOk
                      THEN gone \cup {target[r]} ELSE gone
    /\ UNCHANGED <<lock, op, target, input, sess, loaded, started, nextId>>
    /\ UNCHANGED readSide

Next ==
    \E r \in Reqs :
        \/ Start(r)
        \/ Get(r)
        \/ UpdateFetch(r)
        \/ UpdateApply(r)
        \/ UpdateCommit(r)
        \/ UpdateGet(r)
        \/ InsertNew(r)
        \/ InsertApply(r)
        \/ InsertCommit(r)
        \/ InsertMerge(r)
        \/ DeleteFetch(r)
        \/ DeleteCommit(r)

Spec == Init /\ [][Next]_vars

(***************************************************************************)
(* Properties of the mutating operations.                                  *)
(***************************************************************************)
\* request r takes a step from position p
Leaves(r, p) == pc[r] = p /\ pc'[r] # p

\* C1: an update whose input carries another version than the row it
\* fetched ends with HTTPConflict and an aborted transaction, and no step of
\* the call up to there writes to the store, whichever fields apply_changes
\* set before it raised; under update_lock the row is still exactly the row
\* the call fetched, so a get issued afterwards returns the original values.
C1_VersionMismatchConflict ==
    [][\A r \in Reqs :
          /\ (op[r] = "update" /\ Leaves(r, "update")) => store' = store
          /\ (op[r] = "update" /\ Leaves(r, "upd_apply")
                /\ loaded[r].version # input[r].version) =>
                /\ pc'[r] = "done"
                /\ outcome'[r].status = HTTPConflict
                /\ tx'[r] = "aborted"
                /\ store' = store
                /\ update_lock => get_by_id(store', target[r]) = loaded[r]]_vars

\* C1, witness: an update of name that carried a stale version has ended in a conflict
\* and the row is as it was fetched
C1_Witness ==
    \E r \in Reqs :
        /\ op[r] = "update" /\ pc[r] = "done"
        /\ loaded[r] # NoRow
        /\ loaded[r].version # input[r].version
        /\ loaded[r].name # input[r].name
        /\ outcome[r].status = HTTPConflict
        /\ tx[r] = "aborted"
        /\ get_by_id(store, target[r]) = loaded[r]

\* two finished update calls for the same row that carried the same version
\* and both found the row, in a view without update_lock
Racing(r1, r2) ==
    /\ r1 # r2
    /\ ~update_lock
    /\ op[r1] = "update" /\ op[r2] = "update"
    /\ pc[r1] = "done" /\ pc[r2] = "done"
    /\ target[r1] = target[r2]
    /\ input[r1].version = input[r2].version
    /\ loaded[r1] # NoRow /\ loaded[r2] # NoRow

\* the input of r changes a field of the row r fetched
Changes(r) == input[r].name # loaded[r].name

C4_EntityInsideTransaction ==
    \A r \in Reqs :
        /\ (op[r] \in {"insert", "update", "delete"}
              /\ pc[r] \in {"ins_apply", "ins_commit", "upd_apply", "upd_commit",
                            "del_commit"}) => tx[r] = "active"
        /\ tx[r] = "committed" =>
              outcome[r].status \notin {HTTPConflict, HTTPServerError}

\* C5 (as claimed): an update that has committed its writes ends by
\* returning the entity, never with an error.
C5_CommittedUpdateReturnsEntity ==
    \A r \in Reqs :
        (op[r] = "update" /\ pc[r] = "done" /\ tx[r] = "committed"
           /\ Changes(r)) =>
            /\ outcome[r].status = HTTPOk
            /\ outcome[r].body # NoRow

\* no row of the store passes context_filter and identity_filter for ident
NoMatch(ident) ==
    ~\E i \in DOMAIN store :
        store[i] # NoRow /\ context_filter(store[i]) /\ store[i].id = ident

\* C10: a get of an identity whose delete was acknowledged (and that no
\* insert created since) ends with HTTPNotFound; a get or delete of an
\* identity that matches no row ends with HTTPNotFound and leaves the store
\* unchanged; and delete acknowledges only a row it has removed.
C10_DeleteThenNotFound ==
    [][\A r \in Reqs :
          /\ (op[r] = "get" /\ Leaves(r, "get") /\ target[r] \in gone) =>
                outcome'[r].status = HTTPNotFound
          /\ (op[r] \in {"get", "delete"} /\ Leaves(r, op[r]) /\ NoMatch(target[r])) =>
                /\ pc'[r] = "done"
                /\ outcome'[r].status = HTTPNotFound
                /\ store' = store
          /\ (op[r] = "delete" /\ Leaves(r, "del_commit")
                /\ outcome'[r].status = HTTPOk) =>
                /\ store[target[r]] # NoRow
                /\ store'[target[r]] = NoRow]_vars

\* C10, witness: a get has answered HTTPNotFound for an identity another call deleted
C10_Witness ==
    \E r \in Reqs :
        /\ op[r] = "get" /\ pc[r] = "done"
        /\ target[r] \in gone
        /\ outcome[r].status = HTTPNotFound

====
